---------------------------- MODULE Spec2Model ----------------------------
(***************************************************************************)
(* Model of lib/utils/helpers.js of brunch: generateCompilationLog (the    *)
(* one-line summary of a build pass) and getCompilationProgress (the       *)
(* "compiling..." ticker).                                                 *)
(*                                                                         *)
(* Text is modelled as a sequence of one-character strings, so that        *)
(* concatenation, prefixes and number formatting are computed, not         *)
(* assumed.                                                                *)
(***************************************************************************)
EXTENDS Integers, Sequences, FiniteSets, TLC

(***************************************************************************)
(* Bounds of the model.                                                    *)
(***************************************************************************)
\* generated files handed to one call
MaxGenerated == 2
\* source files of one generated file
MaxSources == 3
\* copied assets handed to one call
MaxCopied == 2
\* disposed source paths handed to one call
MaxDisposed == 2
\* largest elapsed time of the duration sweep, in ms above one second
MaxElapsed == 1100
\* ticks of the progress ticker that are followed
MaxTicks == 8
\* calls of the ticker's cancel function that are followed
MaxCancels == 2

(***************************************************************************)
(* Program constants.                                                      *)
(***************************************************************************)
LOG_DOT_ANIMATION_INTERVAL == 4000
oneSecond == 1000

VARIABLES
  \* ---- generateCompilationLog: arguments
  startTime,            \* argument startTime
  copiedAssets,         \* argument copiedAssets: sequence of [path]
  sourcePaths,          \* disposedFiles.sourcePaths
  \* ---- generateCompilationLog: position and locals
  pc,                   \* "generated": between two generated files,
                        \* "sources": inside the inner forEach, "done"
  taken,                \* generated files handed to the outer callback so far
  generatedFile,        \* the outer callback's argument
  si,                   \* source files of generatedFile visited so far
  sourceFile,           \* the inner callback's argument
  isChanged,
  locallyCompiledCount,
  len,
  generated,
  compiled,
  cachedCount,
  \* ---- generateCompilationLog: the clauses and the result
  cachedLog,
  nonAssetsLog,
  assetsLog,
  main,
  diff,
  result,
  \* ---- duration sweep
  dDiff,                \* elapsed time handed to the duration formatting
  dText,                \* its text
  dpc,
  \* ---- getCompilationProgress
  tpc,                  \* "idle": no callback running, "logger": inside
                        \* the logger call of writeWithDots
  initRunIn,
  iterations,
  timeout,              \* the handle held in the closure variable `timeout`
  timers,               \* pending timers: set of [id, delay]
  nextId,               \* next handle setTimeout returns
  logged,               \* lines handed to the logger so far
  cancels               \* calls of the returned cancel function so far

logVars == <<startTime, copiedAssets, sourcePaths, pc, taken, generatedFile,
             si, sourceFile, isChanged, locallyCompiledCount, len, generated,
             compiled, cachedCount, cachedLog, nonAssetsLog, assetsLog, main,
             diff, result>>
durVars == <<dDiff, dText, dpc>>
tickVars == <<tpc, initRunIn, iterations, timeout, timers, nextId, logged, cancels>>
vars == <<logVars, durVars, tickVars>>

(***************************************************************************)
(* Text fragments of the template literals.                                *)
(***************************************************************************)
TxtInto == <<" ", "i", "n", "t", "o", " ">>
TxtFiles == <<" ", "f", "i", "l", "e", "s">>
TxtRemoved == <<"r", "e", "m", "o", "v", "e", "d", " ">>
TxtCompiled == <<"c", "o", "m", "p", "i", "l", "e", "d", " ">>
TxtAndWrote == <<" ", "a", "n", "d", " ", "w", "r", "o", "t", "e", " ">>
TxtCached == <<" ", "c", "a", "c", "h", "e", "d">>
TxtAnd == <<" ", "a", "n", "d", " ">>
TxtFile == <<"f", "i", "l", "e">>
TxtFilesAnd == <<" ", "f", "i", "l", "e", "s", " ", "a", "n", "d", " ">>
TxtSep == <<",", " ">>
TxtCopied == <<"c", "o", "p", "i", "e", "d", " ">>
TxtIn == <<" ", "i", "n", " ">>
TxtSec == <<" ", "s", "e", "c">>
TxtMs == <<" ", "m", "s">>
TxtFallback == <<"c", "o", "m", "p", "i", "l", "e", "d">>
TxtCompiling == <<"c", "o", "m", "p", "i", "l", "i", "n", "g">>
TxtStillCompiling == <<"s", "t", "i", "l", "l", " ">> \o TxtCompiling

(***************************************************************************)
(* String conversions of JavaScript.                                       *)
(***************************************************************************)
DigitChar(d) == <<"0", "1", "2", "3", "4", "5", "6", "7", "8", "9">>[d + 1]

RECURSIVE Digits(_)
\* decimal digits of a natural number
Digits(n) == IF n < 10 THEN <<DigitChar(n)>>
             ELSE Digits(n \div 10) \o <<DigitChar(n % 10)>>

\* `${n}` of an integer
NumberToString(n) == IF n < 0 THEN <<"-">> \o Digits(-n) ELSE Digits(n)

RECURSIVE ArrayToString(_)
\* `${array}` of an array of strings: its elements joined by ","
ArrayToString(a) ==
  IF Len(a) = 0 THEN <<>>
  ELSE IF Len(a) = 1 THEN a[1]
  ELSE a[1] \o <<",">> \o ArrayToString(Tail(a))

RECURSIVE PowMod2(_, _)
\* 2^k modulo m
PowMod2(k, m) == IF k = 0 THEN 1 % m ELSE (2 * PowMod2(k - 1, m)) % m

RECURSIVE BinaryExponent(_, _)
\* the e >= 0 with 2^e <= num/den < 2^(e+1), for num >= den
BinaryExponent(num, den) ==
  IF num < 2 * den THEN 0 ELSE 1 + BinaryExponent(num, 2 * den)

\* (d / 1000).toFixed(1) for an integer d >= 1000.  d / 1000 is the double
\* nearest to the quotient: m * 2^(e-52) with m the quotient scaled by
\* 2^(52-e) and rounded.  toFixed(1) takes the n with n/10 nearest to that
\* double, the larger n on a tie; only when d ends in 50 does the rounding
\* of the double decide, by the remainder of d * 2^(52-e) modulo 1000.
ToFixed1(d) ==
  LET q == d \div 100
      r == d % 100
      e == BinaryExponent(d, oneSecond)
      rem == ((d % oneSecond) * PowMod2(52 - e, oneSecond)) % oneSecond
      n == IF r < 50 THEN q
           ELSE IF r > 50 THEN q + 1
           ELSE IF rem = 0 \/ 2 * rem > oneSecond THEN q + 1
           ELSE q
  IN  Digits(n \div 10) \o <<".">> \o Digits(n % 10)

RECURSIVE basename(_)
\* the final segment of a path
basename(path) ==
  IF \E i \in 1..Len(path) : path[i] = "/"
    THEN basename(Tail(path))
    ELSE path

getName(file) == basename(file.path)

\* files.map(getName)
MapGetName(files) == [i \in 1..Len(files) |-> getName(files[i])]

includes(a, x) == \E i \in 1..Len(a) : a[i] = x

(***************************************************************************)
(* The clauses of generateCompilationLog.                                  *)
(***************************************************************************)
\* a source file counts as compiled in this pass
Recompiled(file, start) == file.compilationTime >= start

\* dgen.includes(generatedFile): membership by object identity; each
\* generated file carries the answer of that test
DgenIncludes(file) == file.inDgen

generatedLog(gen) ==
  IF Len(gen) = 0 THEN <<>>
  ELSE IF Len(gen) = 1 THEN TxtInto \o ArrayToString(gen)
  ELSE TxtInto \o NumberToString(Len(gen)) \o TxtFiles

compiledLog(comp, disposed) ==
  IF Len(comp) = 0 THEN
    IF Len(disposed) = 0 THEN <<>>
    ELSE IF Len(disposed) = 1 THEN TxtRemoved \o ArrayToString(disposed)
    ELSE TxtRemoved \o NumberToString(Len(disposed))
  ELSE IF Len(comp) = 1 THEN TxtCompiled \o ArrayToString(comp)
  ELSE TxtCompiled \o NumberToString(Len(comp))

\* the cached clause with the two answers for a count of 0 exchanged
CachedLogZeroExchanged(count, comp, gen) ==
  IF count = 0 THEN (IF Len(comp) <= 1 THEN TxtFiles ELSE <<>>)
  ELSE IF Len(comp) = 0 THEN
    TxtAndWrote \o NumberToString(count) \o TxtCached
      \o (IF Len(gen) > 1 THEN <<>> ELSE TxtFiles)
  ELSE IF Len(comp) = 1 THEN
    TxtAnd \o NumberToString(count) \o TxtCached \o <<" ">>
      \o TxtFile \o (IF count = 1 THEN <<>> ELSE <<"s">>)
  ELSE TxtFilesAnd \o NumberToString(count) \o TxtCached

\* the cached clause with the noun of 'wrote N cached' chosen by the
\* compiled names instead of the generated names
CachedLogNounByCompiled(count, comp, gen) ==
  IF count = 0 THEN (IF Len(comp) <= 1 THEN <<>> ELSE TxtFiles)
  ELSE IF Len(comp) = 0 THEN
    TxtAndWrote \o NumberToString(count) \o TxtCached
      \o (IF Len(comp) > 1 THEN <<>> ELSE TxtFiles)
  ELSE IF Len(comp) = 1 THEN
    TxtAnd \o NumberToString(count) \o TxtCached \o <<" ">>
      \o TxtFile \o (IF count = 1 THEN <<>> ELSE <<"s">>)
  ELSE TxtFilesAnd \o NumberToString(count) \o TxtCached

CachedLogOf(count, comp, gen) ==
  IF count = 0 THEN (IF Len(comp) <= 1 THEN <<>> ELSE TxtFiles)
  ELSE IF Len(comp) = 0 THEN
    TxtAndWrote \o NumberToString(count) \o TxtCached
      \o (IF Len(gen) > 1 THEN <<>> ELSE TxtFiles)
  ELSE IF Len(comp) = 1 THEN
    TxtAnd \o NumberToString(count) \o TxtCached \o <<" ">>
      \o TxtFile \o (IF count = 1 THEN <<>> ELSE <<"s">>)
  ELSE TxtFilesAnd \o NumberToString(count) \o TxtCached

\* the assets clause with ' files' whatever was compiled
AssetsLogAlwaysFiles(cop, comp) ==
  IF Len(cop) = 0 THEN <<>>
  ELSE IF Len(cop) = 1 THEN TxtCopied \o ArrayToString(cop)
  ELSE TxtCopied \o NumberToString(Len(cop)) \o TxtFiles

AssetsLogOf(cop, comp) ==
  IF Len(cop) = 0 THEN <<>>
  ELSE IF Len(cop) = 1 THEN TxtCopied \o ArrayToString(cop)
  ELSE IF Len(comp) # 0 THEN TxtCopied \o NumberToString(Len(cop))
  ELSE TxtCopied \o NumberToString(Len(cop)) \o TxtFiles

\* the seconds form from one second on
UsesSecondsFromOneSecond(d) == d >= oneSecond

\* diff > oneSecond
UsesSeconds(d) == d > oneSecond

diffText(d) ==
  IF UsesSeconds(d) THEN ToFixed1(d) \o TxtSec
  ELSE NumberToString(d) \o TxtMs

(***************************************************************************)
(* Inputs.                                                                 *)
(***************************************************************************)
StartTimes == {10}
SourcePaths == { <<"a", "/", "x">>, <<"b", "/", "x">>, <<"y">> }
AssetPath == <<"i", "/", "p", "n", "g">>
DisposedPath == <<"s", "/", "o", "l", "d">>
\* elapsed times at the call of Date.now()
Elapsed == {0, oneSecond, 1250}

GeneratedPath(i) == <<"o", "/", "g">> \o Digits(i)

SourceFiles(start) ==
  [path : SourcePaths, compilationTime : {start - 1, start}]

\* the source files of one generated file: distinct files, in any order
SourceFileSeqs(start) ==
  { s \in UNION { [1..n -> SourceFiles(start)] : n \in 0..MaxSources } :
      \A i, j \in 1..Len(s) : i # j => s[i].path # s[j].path }

GeneratedFiles(start, i) ==
  [path : {GeneratedPath(i)}, sourceFiles : SourceFileSeqs(start),
   inDgen : BOOLEAN]

Repeat(x, n) == [i \in 1..n |-> x]

NoFile == [path |-> <<>>, compilationTime |-> 0]
NoGenerated == [path |-> <<>>, sourceFiles |-> <<>>, inDgen |-> FALSE]


(***************************************************************************)
(* generateCompilationLog, one step per callback of its two forEach loops. *)
(* The generated files are handed to the outer callback one at a time;     *)
(* each is any generated file of the input domain.                         *)
(***************************************************************************)
LogInit ==
  /\ startTime \in StartTimes
  /\ copiedAssets \in { Repeat([path |-> AssetPath], n) : n \in 0..MaxCopied }
  /\ sourcePaths \in { Repeat(DisposedPath, n) : n \in 0..MaxDisposed }
  /\ pc = "generated"
  /\ taken = 0
  /\ generatedFile = NoGenerated
  /\ si = 0
  /\ sourceFile = NoFile
  /\ isChanged = FALSE
  /\ locallyCompiledCount = 0
  /\ len = 0
  /\ generated = <<>>
  /\ compiled = <<>>
  /\ cachedCount = 0
  /\ cachedLog = <<>>
  /\ nonAssetsLog = <<>>
  /\ assetsLog = <<>>
  /\ main = <<>>
  /\ diff = 0
  /\ result = <<>>

\* a push without the includes test
PushAlways(comp, sourceName) == Append(comp, sourceName)

\* compiled after `if (!compiled.includes(sourceName)) compiled.push(sourceName)`
PushCompiled(comp, sourceName) ==
  IF includes(comp, sourceName) THEN comp ELSE Append(comp, sourceName)

\* isChanged after `if (!isChanged && dgen.includes(generatedFile)) isChanged = true`
MarkDisposed(changed, file) ==
  IF ~changed /\ DgenIncludes(file) THEN TRUE ELSE changed

\* cachedCount after `cachedCount += len - locallyCompiledCount`
AddCached(count, length, locally) == count + (length - locally)

\* the outer callback is entered with the next generated file
BeginGenerated ==
  /\ pc = "generated"
  /\ taken < MaxGenerated
  /\ \E file \in GeneratedFiles(startTime, taken + 1) :
       /\ generatedFile' = file
       /\ len' = Len(file.sourceFiles)
  /\ taken' = taken + 1
  /\ isChanged' = FALSE
  /\ locallyCompiledCount' = 0
  /\ si' = 0
  /\ sourceFile' = NoFile
  /\ pc' = "sources"
  /\ UNCHANGED <<startTime, copiedAssets, sourcePaths, generated, compiled,
                 cachedCount, cachedLog, nonAssetsLog, assetsLog, main, diff,
                 result, durVars, tickVars>>

\* the inner callback, for the next source file of generatedFile
ForEachSource ==
  /\ pc = "sources"
  /\ si < Len(generatedFile.sourceFiles)
  /\ LET file == generatedFile.sourceFiles[si + 1]
         recompiled == Recompiled(file, startTime)
     IN  /\ sourceFile' = file
         /\ locallyCompiledCount' =
              IF recompiled THEN locallyCompiledCount + 1
              ELSE locallyCompiledCount
         /\ compiled' =
              IF recompiled THEN PushCompiled(compiled, getName(file))
              ELSE compiled
         /\ isChanged' = MarkDisposed(isChanged \/ recompiled, generatedFile)
  /\ si' = si + 1
  /\ UNCHANGED <<startTime, copiedAssets, sourcePaths, pc, taken,
                 generatedFile, len, generated, cachedCount, cachedLog,
                 nonAssetsLog, assetsLog, main, diff, result, durVars,
                 tickVars>>

\* the end of the outer callback
EndGenerated ==
  /\ pc = "sources"
  /\ si = Len(generatedFile.sourceFiles)
  /\ IF isChanged
       THEN /\ generated' = Append(generated, getName(generatedFile))
            /\ cachedCount' = AddCached(cachedCount, len, locallyCompiledCount)
       ELSE UNCHANGED <<generated, cachedCount>>
  /\ pc' = "generated"
  /\ UNCHANGED <<startTime, copiedAssets, sourcePaths, taken, generatedFile,
                 si, sourceFile, isChanged, locallyCompiledCount, len,
                 compiled, cachedLog, nonAssetsLog, assetsLog, main, diff,
                 result, durVars, tickVars>>

\* main with no fallback
MainNoFallback(m) == m

\* main || 'compiled'
MainOrFallback(m) == IF m = <<>> THEN TxtFallback ELSE m

\* the rest of the function, once the outer forEach has returned (the
\* callbacks' arguments and locals are gone); Date.now() is read here
Finish ==
  /\ pc = "generated"
  /\ \E elapsed \in Elapsed :
       LET copied == MapGetName(copiedAssets)
           disposed == sourcePaths
           cached == CachedLogOf(cachedCount, compiled, generated)
           nonAssets == compiledLog(compiled, disposed) \o cached
                          \o generatedLog(generated)
           sep == IF nonAssets # <<>> /\ Len(copied) # 0 THEN TxtSep ELSE <<>>
           assets == AssetsLogOf(copied, compiled)
           now == startTime + elapsed
       IN  /\ cachedLog' = cached
           /\ nonAssetsLog' = nonAssets
           /\ assetsLog' = assets
           /\ main' = nonAssets \o sep \o assets
           /\ diff' = now - startTime
           /\ result' = MainOrFallback(main') \o TxtIn \o diffText(diff')
  /\ pc' = "done"
  /\ generatedFile' = NoGenerated
  /\ sourceFile' = NoFile
  /\ si' = 0
  /\ isChanged' = FALSE
  /\ locallyCompiledCount' = 0
  /\ len' = 0
  /\ UNCHANGED <<startTime, copiedAssets, sourcePaths, taken, generated,
                 compiled, cachedCount, durVars, tickVars>>

LogNext ==
  \/ BeginGenerated
  \/ ForEachSource
  \/ EndGenerated
  \/ Finish

(***************************************************************************)
(* The duration text alone, over a range of elapsed times.                 *)
(***************************************************************************)
DurInit ==
  /\ dDiff \in (-1)..(oneSecond + MaxElapsed)
  /\ dText = <<>>
  /\ dpc = "call"

FormatDuration ==
  /\ dpc = "call"
  /\ dText' = diffText(dDiff)
  /\ dpc' = "done"
  /\ UNCHANGED <<dDiff, logVars, tickVars>>

(***************************************************************************)
(* getCompilationProgress.  A timer that is pending may fire at any time;  *)
(* the logger is the caller's function, and may itself call cancel.        *)
(***************************************************************************)
TimesPassed == {0, 1000, 4000, 5000}

InitRunInOf(timePassed) ==
  LET wait == IF timePassed # 0
                THEN LOG_DOT_ANIMATION_INTERVAL - timePassed
                ELSE LOG_DOT_ANIMATION_INTERVAL
  IN  IF wait < 0 THEN 0 ELSE wait

TickInit ==
  /\ tpc = "idle"
  /\ iterations = 0
  /\ \E timePassed \in TimesPassed : initRunIn = InitRunInOf(timePassed)
  /\ timers = { [id |-> 1, delay |-> initRunIn] }
  /\ timeout = 1
  /\ nextId = 2
  /\ logged = <<>>
  /\ cancels = 0

\* the line writeWithDots hands to the logger
Line(n) ==
  (IF n = 7 THEN TxtStillCompiling ELSE TxtCompiling) \o Repeat(".", n % 4)

\* clearTimeout(handle)
ClearTimeout(pending, handle) == { t \in pending : t.id # handle }

\* a pending timer fires: writeWithDots up to and into its logger call
TimerFires ==
  /\ tpc = "idle"
  /\ iterations < MaxTicks
  /\ \E t \in timers : timers' = timers \ {t}
  /\ logged' = Append(logged, Line(iterations))
  /\ tpc' = "logger"
  /\ UNCHANGED <<initRunIn, iterations, timeout, nextId, cancels, logVars,
                 durVars>>

\* the logger returns: the rest of writeWithDots
LoggerReturns ==
  /\ tpc = "logger"
  /\ iterations' = iterations + 1
  /\ timeout' = nextId
  /\ timers' = timers \cup { [id |-> nextId, delay |-> LOG_DOT_ANIMATION_INTERVAL] }
  /\ nextId' = nextId + 1
  /\ tpc' = "idle"
  /\ UNCHANGED <<initRunIn, logged, cancels, logVars, durVars>>

\* the returned function is called, by the owner or from inside the logger
Cancel ==
  /\ cancels < MaxCancels
  /\ timers' = ClearTimeout(timers, timeout)
  /\ cancels' = cancels + 1
  /\ UNCHANGED <<tpc, initRunIn, iterations, timeout, nextId, logged, logVars,
                 durVars>>

TickNext ==
  \/ TimerFires
  \/ LoggerReturns
  \/ Cancel

(***************************************************************************)
(* Specifications.                                                         *)
(***************************************************************************)
\* the variables of the parts a specification does not run
LogIdle ==
  /\ startTime = 0 /\ copiedAssets = <<>> /\ sourcePaths = <<>>
  /\ pc = "done" /\ taken = 0 /\ generatedFile = NoGenerated /\ si = 0
  /\ sourceFile = NoFile /\ isChanged = FALSE /\ locallyCompiledCount = 0
  /\ len = 0 /\ generated = <<>> /\ compiled = <<>> /\ cachedCount = 0
  /\ cachedLog = <<>> /\ nonAssetsLog = <<>> /\ assetsLog = <<>>
  /\ main = <<>> /\ diff = 0 /\ result = <<>>
DurIdle == dDiff = 0 /\ dText = <<>> /\ dpc = "done"
TickIdle ==
  /\ tpc = "idle" /\ initRunIn = 0 /\ iterations = 0 /\ timeout = 0
  /\ timers = {}
  /\ nextId = 1 /\ logged = <<>> /\ cancels = 0

Init == LogInit /\ DurIdle /\ TickIdle
Next == LogNext
Spec == Init /\ [][Next]_vars

InitDuration == LogIdle /\ DurInit /\ TickIdle
NextDuration == FormatDuration
SpecDuration == InitDuration /\ [][NextDuration]_vars

InitTicker == LogIdle /\ DurIdle /\ TickInit
NextTicker == TickNext
SpecTicker == InitTicker /\ [][NextTicker]_vars

(***************************************************************************)
(* Vocabulary of the properties.                                           *)
(***************************************************************************)
StartsWith(s, prefix) ==
  Len(prefix) <= Len(s) /\ SubSeq(s, 1, Len(prefix)) = prefix

EndsWith(s, suffix) ==
  Len(suffix) <= Len(s)
    /\ SubSeq(s, Len(s) - Len(suffix) + 1, Len(s)) = suffix

IsDigits(s) ==
  Len(s) > 0
    /\ \A i \in 1..Len(s) :
         s[i] \in {"0", "1", "2", "3", "4", "5", "6", "7", "8", "9"}

\* "<integer> ms"
IsMsText(s) ==
  /\ EndsWith(s, <<" ", "m", "s">>)
  /\ LET num == SubSeq(s, 1, Len(s) - 3)
     IN  IsDigits(num) \/ (Len(num) > 1 /\ num[1] = "-" /\ IsDigits(Tail(num)))

\* "<number>.<one digit> sec"
IsSecText(s) ==
  /\ EndsWith(s, <<" ", "s", "e", "c">>)
  /\ Len(s) >= 7
  /\ IsDigits(SubSeq(s, 1, Len(s) - 6))
  /\ s[Len(s) - 5] = "."
  /\ IsDigits(<<s[Len(s) - 4]>>)

\* the source files of a generated file that were compiled in this pass
ChangedSources(file, start) ==
  { i \in 1..Len(file.sourceFiles) :
      file.sourceFiles[i].compilationTime >= start }

\* the characters after the last "/" of a path
LastSegment(path) ==
  LET slashes == { i \in 1..Len(path) : path[i] = "/" }
      last == IF slashes = {} THEN 0
              ELSE CHOOSE i \in slashes : \A j \in slashes : j <= i
  IN  SubSeq(path, last + 1, Len(path))

NoDuplicates(s) == \A i, j \in 1..Len(s) : i # j => s[i] # s[j]

\* C1: the result is '<main> in <duration>' with <main> non-empty and
\* <duration> either '<integer> ms' or '<number>.<one digit> sec'; with no
\* copied asset, no generated file and no disposed path, <main> is exactly
\* 'compiled'.
C1_ResultShape ==
  pc = "done" =>
    /\ \E k \in 1..(Len(result) - 5) :
         /\ SubSeq(result, k + 1, k + 4) = <<" ", "i", "n", " ">>
         /\ LET duration == SubSeq(result, k + 5, Len(result))
            IN  IsMsText(duration) \/ IsSecText(duration)
    /\ (taken = 0 /\ copiedAssets = <<>> /\ sourcePaths = <<>>) =>
         /\ StartsWith(result, <<"c", "o", "m", "p", "i", "l", "e", "d", " ", "i", "n", " ">>)
         /\ LET duration == SubSeq(result, 13, Len(result))
            IN  IsMsText(duration) \/ IsSecText(duration)

C1_Witness ==
  /\ pc = "done" /\ taken = 0 /\ copiedAssets = <<>> /\ sourcePaths = <<>>
  /\ result = <<"c", "o", "m", "p", "i", "l", "e", "d", " ", "i", "n", " ">> \o <<"1", ".", "3", " ", "s", "e", "c">>

\* C2 as stated: an elapsed time of exactly 1000 ms is rendered '1.0 sec'.
C2_Original ==
  (dpc = "done" /\ dDiff = 1000) => dText = <<"1", ".", "0", " ", "s", "e", "c">>

\* C2 as amended: an elapsed time of exactly 1000 ms is rendered '1000 ms';
\* the seconds form is used exactly for elapsed times above 1000 ms, and
\* 1001 ms is the first to read '1.0 sec'.
C2_BoundaryIsMilliseconds ==
  dpc = "done" =>
    /\ dDiff = 1000 => dText = <<"1", "0", "0", "0", " ", "m", "s">>
    /\ dDiff = 1001 => dText = <<"1", ".", "0", " ", "s", "e", "c">>
    /\ IsSecText(dText) <=> dDiff > 1000
    /\ IsMsText(dText) <=> dDiff <= 1000

C2_Witness == dpc = "done" /\ dDiff = 1000 /\ dText = <<"1", "0", "0", "0", " ", "m", "s">>

\* C3: at the end of the outer callback, a generated file that is listed in
\* disposedFiles.generated and has no changed source, whatever the number of
\* its source files, is added to the generated names and adds its full
\* source count to the cached count; one that is neither listed nor has a
\* changed source adds to neither.
C3_DisposedCountsAsGenerated ==
  [][(pc = "sources" /\ pc' = "generated"
        /\ ChangedSources(generatedFile, startTime) = {}) =>
       IF generatedFile.inDgen
         THEN /\ generated' = Append(generated, <<"g">> \o Digits(taken))
              /\ cachedCount' = cachedCount + Len(generatedFile.sourceFiles)
         ELSE /\ generated' = generated
              /\ cachedCount' = cachedCount]_vars

\* C4: a single generated file with c >= 2 changed and u >= 1 unchanged
\* sources, no copied asset and nothing disposed, gives the main text
\* 'compiled c files and u cached into <bundle basename>', whatever the
\* paths of the changed sources.
C4_CompiledCountIsChangedCount ==
  [][(pc = "generated" /\ pc' = "done" /\ taken = 1
        /\ ~generatedFile.inDgen
        /\ copiedAssets = <<>> /\ sourcePaths = <<>>
        /\ Cardinality(ChangedSources(generatedFile, startTime)) >= 2
        /\ Cardinality(ChangedSources(generatedFile, startTime))
             < Len(generatedFile.sourceFiles)) =>
       LET c == Cardinality(ChangedSources(generatedFile, startTime))
           u == Len(generatedFile.sourceFiles) - c
       IN  main' = <<"c", "o", "m", "p", "i", "l", "e", "d", " ">> \o Digits(c) \o <<" ", "f", "i", "l", "e", "s", " ", "a", "n", "d", " ">> \o Digits(u)
                     \o <<" ", "c", "a", "c", "h", "e", "d", " ", "i", "n", "t", "o", " ">> \o <<"g">> \o Digits(1)]_vars

C8_CompiledNamesUnique ==
  [][/\ NoDuplicates(compiled')
     /\ (pc = "sources" /\ si' = si + 1) =>
          LET name == LastSegment(sourceFile'.path)
              changed == sourceFile'.compilationTime >= startTime
          IN  /\ changed => \E i \in 1..Len(compiled') : compiled'[i] = name
              /\ \/ compiled' = compiled
                 \/ /\ changed
                    /\ \A i \in 1..Len(compiled) : compiled[i] # name
                    /\ compiled' = compiled \o <<name>>
     /\ ~(pc = "sources" /\ si' = si + 1) => compiled' = compiled]_vars

\* the second generated file is being visited, the first had only changed
\* sources, and the changed source just visited was already in the list
C8_Witness ==
  /\ pc = "sources" /\ taken = 2 /\ Len(generated) = 1 /\ cachedCount = 0
  /\ locallyCompiledCount = 1 /\ Len(compiled) = 1
  /\ sourceFile.compilationTime >= startTime

\* C9: once the returned cancel function has been called, at whatever
\* moment, the logger is not invoked again and no timer is left pending.
C9_CancelStopsTicker ==
  [][cancels' > 0 =>
       /\ timers' = {}
       /\ cancels > 0 => logged' = logged]_vars

\* C10: the main text returned is the word 'compiled' alone or starts with
\* 'compiled ', 'removed ' or 'copied '; never with a space or a
\* conjunction.
C10_MainStartsWithVerb ==
  pc = "done" =>
    \/ main = <<>> /\ StartsWith(result, <<"c", "o", "m", "p", "i", "l", "e", "d", " ", "i", "n", " ">>)
    \/ StartsWith(main, <<"c", "o", "m", "p", "i", "l", "e", "d", " ">>)
    \/ StartsWith(main, <<"r", "e", "m", "o", "v", "e", "d", " ">>)
    \/ StartsWith(main, <<"c", "o", "p", "i", "e", "d", " ">>)
=============================================================================
